---- MODULE Spec2Model ----
(***************************************************************************)
(* SimpleMail: the mail store (SQLite / PostgreSQL backends) and the       *)
(* protocol-facing session adapters (IMAP mailbox adapter, SMTP            *)
(* submission adapter, POP3 connection handler) that share it.             *)
(*                                                                         *)
(* The store is the value of the variable db: the four tables of           *)
(* createSchema plus the AUTOINCREMENT / SERIAL counters.  Every store     *)
(* method is an operator from a store value to a result record             *)
(* [db, err, ...]; the actions apply these operators to the current store. *)
(* An injected fault stands for an I/O error of the underlying engine on   *)
(* one write statement.                                                    *)
(***************************************************************************)
EXTENDS Integers, Sequences, FiniteSets, TLC

VARIABLES main, backend, db, smtp, imap, pop3, flagUpdate, hwm, authed, lastOp

vars == <<main, backend, db, smtp, imap, pop3, flagUpdate, hwm, authed, lastOp>>

(***************************************************************************)
(* Bounds of the model.                                                    *)
(***************************************************************************)
MaxUserIds == 1
MaxMessageIds == 3
MaxAttachmentIds == 1
MaxUid == 1
MaxBusyMailboxId == 1
MaxSmtpSessions == 2
MaxImapSessions == 1
MaxDate == 3
MaxRcpts == 2
MaxFlagUpdates == 1
MaxConfiguredBytes == 5
MaxPop3Sessions == 1
MaxPop3Commands == 4
MaxPop3Index == 1
MaxMailboxIds == 6
MaxCoexistingUsers == 2

(***************************************************************************)
(* Input domains.                                                          *)
(***************************************************************************)
Backends == {"sqlite", "postgres"}
Usernames == {"alice", "bob"}
Emails == {"alice@example.org"}
OtherEmails == {"bob@example.org"}
OtherUsernames == {"bob"}
Passwords == {"secret"}
LoginPasswords == Passwords \cup {"wrong"}
Payload10 == <<104, 101, 108, 108, 111, 32, 109, 97, 105, 108>>
Payloads == {Payload10}
SelectNames == {"INBOX", "Sent"}
MailboxNames == {"INBOX", "Sent", "Work"}
Senders == {"alice@example.org"}
Recipients == {"bob@example.org", "carol@example.org"}
Payload2 == <<104, 105>>
DataPayloads == Payloads \cup {Payload2}

SeenFlag == "\\Seen"
DeletedFlag == "\\Deleted"
DraftFlag == "\\Draft"
ImapFlags == {SeenFlag, DeletedFlag, DraftFlag}

Ok == "nil"

\* time.Time{}: the Date of a Message literal that sets none, and the value
\* of a search criterion that was not supplied.  Dates: the instants a clock
\* reading or a caller can give.
ZeroTime == 0
Dates == 1 .. MaxDate
\* The readings of the clock while submissions are accepted.
Clock == {MaxDate}

SmtpSessions == 1 .. MaxSmtpSessions
ImapSessions == 1 .. MaxImapSessions
BusyMailboxIds == 1 .. MaxBusyMailboxId
FlagUpdates == 1 .. MaxFlagUpdates
\* A mailbox holds at most one message per UID in 0 .. MaxUid.
SeqNums == 1 .. (MaxUid + 1)

(***************************************************************************)
(* Schema.                                                                 *)
(***************************************************************************)
\* FOREIGN KEY ... ON DELETE CASCADE is enforced by PostgreSQL.  SQLite
\* enforces foreign keys only on a connection that ran
\* PRAGMA foreign_keys = ON (or was opened with _foreign_keys=1);
\* SQLiteStorage.Open opens the bare path and runs no PRAGMA.
ForeignKeys == backend = "postgres"

EmptyDb ==
  [users |-> {}, mailboxes |-> {}, messages |-> {}, attachments |-> {},
   seq |-> [users |-> 0, mailboxes |-> 0, messages |-> 0, attachments |-> 0]]

Result(d, e) == [db |-> d, err |-> e]

MaxOf(S) == CHOOSE x \in S : \A y \in S : y <= x

(***************************************************************************)
(* Rows removed together with their owner (ON DELETE CASCADE).             *)
(***************************************************************************)
MessagesOf(d, mailboxIds) == {m \in d.messages : m.mailbox_id \in mailboxIds}

AttachmentsOf(d, messageIds) == {a \in d.attachments : a.message_id \in messageIds}

Ids(rows) == {r.id : r \in rows}

CascadeMessages(d, msgs) ==
  IF ForeignKeys
  THEN [d EXCEPT !.messages = @ \ msgs,
                 !.attachments = @ \ AttachmentsOf(d, Ids(msgs))]
  ELSE [d EXCEPT !.messages = @ \ msgs]

CascadeMailboxes(d, mbs) ==
  IF ForeignKeys
  THEN CascadeMessages([d EXCEPT !.mailboxes = @ \ mbs], MessagesOf(d, Ids(mbs)))
  ELSE [d EXCEPT !.mailboxes = @ \ mbs]

(***************************************************************************)
(* Storage: users.                                                         *)
(***************************************************************************)
InsertUser(d, user) ==
  IF \E u \in d.users : u.username = user.username \/ u.email = user.email
  THEN Result(d, "unique") @@ [id |-> 0]
  ELSE LET id == d.seq.users + 1
       IN Result([d EXCEPT !.users = @ \cup {[id |-> id,
                                              username |-> user.username,
                                              password |-> user.password,
                                              email |-> user.email]},
                           !.seq.users = id], Ok) @@ [id |-> id]

CreateMailbox(d, mailbox, fault) ==
  IF fault THEN Result(d, "io") @@ [id |-> 0]
  ELSE IF ForeignKeys /\ mailbox.user_id \notin Ids(d.users)
  THEN Result(d, "foreign_key") @@ [id |-> 0]
  ELSE IF \E b \in d.mailboxes : b.user_id = mailbox.user_id /\ b.name = mailbox.name
  THEN Result(d, "unique") @@ [id |-> 0]
  ELSE LET id == d.seq.mailboxes + 1
       IN Result([d EXCEPT !.mailboxes = @ \cup {[id |-> id,
                                                  user_id |-> mailbox.user_id,
                                                  name |-> mailbox.name,
                                                  path |-> mailbox.path]},
                           !.seq.mailboxes = id], Ok) @@ [id |-> id]

DefaultMailboxes == <<"INBOX", "Sent", "Drafts", "Trash">>

\* The loop of CreateUser over the default names: the i-th CreateMailbox
\* runs on the store the earlier ones left; its error ends the loop.
RECURSIVE ProvisionDefaults(_, _, _, _)
ProvisionDefaults(d, userId, i, failAt) ==
  IF i > Len(DefaultMailboxes) THEN Result(d, Ok)
  ELSE LET r == CreateMailbox(d, [user_id |-> userId,
                                  name |-> DefaultMailboxes[i],
                                  path |-> DefaultMailboxes[i]], i = failAt)
       IN IF r.err # Ok THEN Result(r.db, r.err)
          ELSE ProvisionDefaults(r.db, userId, i + 1, failAt)

CreateUser(d, user, failAt) ==
  LET r == InsertUser(d, user)
  IN IF r.err # Ok THEN Result(d, r.err)
     ELSE ProvisionDefaults(r.db, r.id, 1, failAt)

GetUser(d, username) ==
  IF \E u \in d.users : u.username = username
  THEN [user |-> CHOOSE u \in d.users : u.username = username, err |-> Ok]
  ELSE [user |-> [id |-> 0], err |-> "ErrUserNotFound"]

DeleteUser(d, userId) ==
  LET us == {u \in d.users : u.id = userId}
      d1 == [d EXCEPT !.users = @ \ us]
  IN Result(IF ForeignKeys
            THEN CascadeMailboxes(d1, {b \in d.mailboxes : b.user_id = userId})
            ELSE d1, Ok)

\* Mutant of AuthenticateUser: the password comparison is missing.
AuthenticateUserAnyPassword(d, username, password) == GetUser(d, username)

AuthenticateUser(d, username, password) ==
  LET r == GetUser(d, username)
  IN IF r.err # Ok THEN r
     ELSE IF r.user.password # password
     THEN [user |-> [id |-> 0], err |-> "senha invalida"]
     ELSE r

(***************************************************************************)
(* Storage: mailboxes.                                                     *)
(***************************************************************************)
\* Mutant of GetMailbox: the query matches the name alone.
GetMailboxOfAnyUser(d, userId, name) ==
  IF \E b \in d.mailboxes : b.name = name
  THEN [mailbox |-> CHOOSE b \in d.mailboxes : b.name = name, err |-> Ok]
  ELSE [mailbox |-> [id |-> 0], err |-> "ErrMailboxNotFound"]

GetMailbox(d, userId, name) ==
  IF \E b \in d.mailboxes : b.user_id = userId /\ b.name = name
  THEN [mailbox |-> CHOOSE b \in d.mailboxes : b.user_id = userId /\ b.name = name,
        err |-> Ok]
  ELSE [mailbox |-> [id |-> 0], err |-> "ErrMailboxNotFound"]

\* UPDATE mailboxes SET name, path WHERE id: the row keeps its user_id, and
\* UNIQUE(user_id, name) rejects a name another row of that user holds.
UpdateMailboxUnchecked(d, mailbox) ==
  Result([d EXCEPT !.mailboxes =
            {IF b.id = mailbox.id
             THEN [b EXCEPT !.name = mailbox.name, !.path = mailbox.path]
             ELSE b : b \in @}], Ok)

UpdateMailbox(d, mailbox) ==
  IF \E b \in d.mailboxes, c \in d.mailboxes :
       /\ b.id = mailbox.id /\ c.id # b.id
       /\ c.user_id = b.user_id /\ c.name = mailbox.name
  THEN Result(d, "unique")
  ELSE Result([d EXCEPT !.mailboxes =
                 {IF b.id = mailbox.id
                  THEN [b EXCEPT !.name = mailbox.name, !.path = mailbox.path]
                  ELSE b : b \in @}], Ok)

\* SELECT ... FROM mailboxes WHERE user_id = ?
ListMailboxes(d, userId) == {b \in d.mailboxes : b.user_id = userId}

DeleteMailbox(d, mailboxId) ==
  Result(CascadeMailboxes(d, {b \in d.mailboxes : b.id = mailboxId}), Ok)

(***************************************************************************)
(* Storage: messages.                                                      *)
(***************************************************************************)
\* The uid column is bound to message.UID, the value the caller passed.
InsertedUid(d, message) == message.uid

CreateMessage(d, message) ==
  LET uid == InsertedUid(d, message)
  IN IF ForeignKeys /\ message.mailbox_id \notin Ids(d.mailboxes)
     THEN Result(d, "foreign_key") @@ [id |-> 0]
     ELSE IF \E m \in d.messages : m.mailbox_id = message.mailbox_id /\ m.uid = uid
     THEN Result(d, "unique") @@ [id |-> 0]
     ELSE LET id == d.seq.messages + 1
          IN Result([d EXCEPT !.messages = @ \cup {[id |-> id,
                                                    mailbox_id |-> message.mailbox_id,
                                                    uid |-> uid,
                                                    from |-> message.from,
                                                    to |-> message.to,
                                                    date |-> message.date,
                                                    body |-> message.body,
                                                    raw_data |-> message.raw_data,
                                                    size |-> message.size,
                                                    seen |-> message.seen,
                                                    deleted |-> message.deleted,
                                                    draft |-> message.draft]},
                              !.seq.messages = id], Ok) @@ [id |-> id]

\* Mutant of OrderByUid: the ORDER BY clause is missing and the rows come
\* back in rowid order.
RECURSIVE OrderByRowid(_)
OrderByRowid(rows) ==
  IF rows = {} THEN <<>>
  ELSE LET first == CHOOSE m \in rows : \A o \in rows : m.id <= o.id
       IN <<first>> \o OrderByRowid(rows \ {first})

\* ORDER BY uid: the rows of the mailbox, lowest uid first.
RECURSIVE OrderByUid(_)
OrderByUid(rows) ==
  IF rows = {} THEN <<>>
  ELSE LET first == CHOOSE m \in rows : \A o \in rows : m.uid <= o.uid
       IN <<first>> \o OrderByUid(rows \ {first})

ListMessages(d, mailboxId) == OrderByUid(MessagesOf(d, {mailboxId}))

UpdateMessageFlags(d, messageId, seen, deleted, draft, fault) ==
  IF fault THEN Result(d, "io")
  ELSE Result([d EXCEPT !.messages =
                 {IF m.id = messageId
                  THEN [m EXCEPT !.seen = seen, !.deleted = deleted, !.draft = draft]
                  ELSE m : m \in @}], Ok)

DeleteMessage(d, messageId, fault) ==
  IF fault THEN Result(d, "io")
  ELSE Result(CascadeMessages(d, {m \in d.messages : m.id = messageId}), Ok)

(***************************************************************************)
(* Storage: attachments.                                                   *)
(***************************************************************************)
CreateAttachment(d, attachment) ==
  IF ForeignKeys /\ attachment.message_id \notin Ids(d.messages)
  THEN Result(d, "foreign_key")
  ELSE LET id == d.seq.attachments + 1
       IN Result([d EXCEPT !.attachments = @ \cup {[id |-> id,
                                                    message_id |-> attachment.message_id]},
                           !.seq.attachments = id], Ok)

DeleteAttachment(d, attachmentId) ==
  Result([d EXCEPT !.attachments = {a \in @ : a.id # attachmentId}], Ok)

(***************************************************************************)
(* Mailbox adapter (IMAP).                                                 *)
(***************************************************************************)
\* uidNext is computed from the number of messages listed.
ImapStatus(d, mailboxId) ==
  LET messages == ListMessages(d, mailboxId)
  IN [Messages |-> Len(messages),
      Recent |-> 0,
      Unseen |-> Cardinality({i \in 1 .. Len(messages) : ~messages[i].seen}),
      UidNext |-> Len(messages) + 1,
      UidValidity |-> 1]

\* The listing loop: position i of the store's listing has SeqNum i; the
\* message is selected when seqSet contains its SeqNum (the uid argument is
\* not consulted); Uid and the UID item are filled from the row id.
ImapListMessages(d, mailboxId, uid, seqSet) ==
  LET messages == ListMessages(d, mailboxId)
      Item(i) == [SeqNum |-> i,
                  Uid |-> messages[i].id,
                  UidItem |-> messages[i].id,
                  Flags |-> {f \in ImapFlags :
                               \/ f = SeenFlag /\ messages[i].seen
                               \/ f = DeletedFlag /\ messages[i].deleted
                               \/ f = DraftFlag /\ messages[i].draft},
                  RFC822Size |-> messages[i].size]
  IN SelectSeq([i \in 1 .. Len(messages) |-> Item(i)],
               LAMBDA it : it.SeqNum \in seqSet)

\* Mutant of SinceExcludes: a message dated exactly at the bound is
\* excluded too.
SinceExcludesAtBound(date, since) == since # ZeroTime /\ date <= since

\* criteria.Since != (time.Time{}) && msg.Date.Before(criteria.Since)
SinceExcludes(date, since) == since # ZeroTime /\ date < since

\* criteria.Before != (time.Time{}) && msg.Date.After(criteria.Before)
BeforeExcludes(date, before) == before # ZeroTime /\ date > before

\* The flag tests of the search loop: matches stays true.
FlagsMatch(msg, c) ==
  /\ ~(c.Seen /\ ~msg.seen)
  /\ ~(c.Unseen /\ msg.seen)
  /\ ~(c.Deleted /\ ~msg.deleted)
  /\ ~(c.Undeleted /\ msg.deleted)
  /\ ~(c.Draft /\ ~msg.draft)
  /\ ~(c.Undraft /\ msg.draft)

\* One pass of the search loop: the message at position i is skipped by
\* the first test that rejects it; SeqNum and Uid are <<>> for a nil set
\* and <<S>> for a set S; the Uid set is tested against the row id.
SearchSkips(msg, i, c) ==
  \/ c.SeqNum # <<>> /\ i \notin c.SeqNum[1]
  \/ c.Uid # <<>> /\ msg.id \notin c.Uid[1]
  \/ SinceExcludes(msg.date, c.Since)
  \/ BeforeExcludes(msg.date, c.Before)
  \/ ~FlagsMatch(msg, c)

RECURSIVE SearchLoop(_, _, _, _)
SearchLoop(messages, i, uid, c) ==
  IF i > Len(messages) THEN <<>>
  ELSE IF SearchSkips(messages[i], i, c)
  THEN SearchLoop(messages, i + 1, uid, c)
  ELSE <<IF uid THEN messages[i].id ELSE i>> \o SearchLoop(messages, i + 1, uid, c)

ImapSearchMessages(d, mailboxId, uid, c) ==
  SearchLoop(ListMessages(d, mailboxId), 1, uid, c)

\* The flags written for one listed message: its current flags with every
\* requested flag turned on.
AddedFlags(msg, flags) ==
  [seen |-> msg.seen \/ SeenFlag \in flags,
   deleted |-> msg.deleted \/ DeletedFlag \in flags,
   draft |-> msg.draft \/ DraftFlag \in flags]

RECURSIVE UpdateFlagsLoop(_, _, _, _, _, _)
UpdateFlagsLoop(d, messages, i, seqSet, flags, failId) ==
  IF i > Len(messages) THEN Result(d, Ok)
  ELSE IF i \in seqSet
  THEN LET f == AddedFlags(messages[i], flags)
           r == UpdateMessageFlags(d, messages[i].id, f.seen, f.deleted, f.draft,
                                   messages[i].id = failId)
       IN IF r.err # Ok THEN r
          ELSE UpdateFlagsLoop(r.db, messages, i + 1, seqSet, flags, failId)
  ELSE UpdateFlagsLoop(d, messages, i + 1, seqSet, flags, failId)

ImapUpdateMessagesFlags(d, mailboxId, seqSet, flags, failId) ==
  UpdateFlagsLoop(d, ListMessages(d, mailboxId), 1, seqSet, flags, failId)

\* A call of UpdateMessagesFlags followed statement by statement.  The
\* flags of every UpdateMessageFlags call of the loop are computed from the
\* listed message, so the call is, after ListMessages has returned, the
\* list of writes it still has to make.
NoFlagUpdate == [pc |-> "idle", mailbox |-> 0, writes |-> <<>>]

RECURSIVE PendingWrites(_, _, _, _)
PendingWrites(messages, i, seqSet, flags) ==
  IF i > Len(messages) THEN <<>>
  ELSE IF i \in seqSet
  THEN <<[id |-> messages[i].id] @@ AddedFlags(messages[i], flags)>>
         \o PendingWrites(messages, i + 1, seqSet, flags)
  ELSE PendingWrites(messages, i + 1, seqSet, flags)

\* Mutant of ExpungeSelects: the loop tests the wrong flag.
ExpungeSelectsSeen(msg) == msg.seen

\* The messages of the listing that Expunge hands to DeleteMessage.
ExpungeSelects(msg) == msg.deleted

\* Mutant of ExpungeLoop: the loop returns after its first DeleteMessage.
ExpungeLoopFirstOnly(d, messages, i, failId) ==
  LET hits == {j \in i .. Len(messages) : messages[j].deleted}
  IN IF hits = {} THEN Result(d, Ok)
     ELSE LET j == CHOOSE k \in hits : \A l \in hits : k <= l
          IN DeleteMessage(d, messages[j].id, messages[j].id = failId)

RECURSIVE ExpungeLoop(_, _, _, _)
ExpungeLoop(d, messages, i, failId) ==
  IF i > Len(messages) THEN Result(d, Ok)
  ELSE IF ExpungeSelects(messages[i])
  THEN LET r == DeleteMessage(d, messages[i].id, messages[i].id = failId)
       IN IF r.err # Ok THEN r
          ELSE ExpungeLoop(r.db, messages, i + 1, failId)
  ELSE ExpungeLoop(d, messages, i + 1, failId)

\* Mutant of ImapExpunge: a failing DeleteMessage undoes the deletions made
\* before it.
ImapExpungeRollsBack(d, mailboxId, failId) ==
  LET r == ExpungeLoop(d, ListMessages(d, mailboxId), 1, failId)
  IN IF r.err # Ok THEN Result(d, r.err) ELSE r

ImapExpunge(d, mailboxId, failId) ==
  ExpungeLoop(d, ListMessages(d, mailboxId), 1, failId)

(***************************************************************************)
(* Submission adapter (SMTP).                                              *)
(***************************************************************************)
NoSession == [user |-> 0, from |-> "", to |-> <<>>, pc |-> "none", mailbox |-> 0]

\* Mutant of AnonymousLogin: it hands out a session without a user.
AnonymousLoginAccepts(d) ==
  [session |-> [NoSession EXCEPT !.pc = "idle"], err |-> Ok]

\* AnonymousLogin returns no session and an error.
AnonymousLogin(d) == [session |-> NoSession, err |-> "login anonimo nao permitido"]

SessionMail(session, from) == [session EXCEPT !.from = from]

\* Mutant of SessionRcpt: the recipient replaces the list.
SessionRcptReplaces(session, to) == [session EXCEPT !.to = <<to>>]

SessionRcpt(session, to) == [session EXCEPT !.to = Append(@, to)]

\* Mutant of SessionReset: the recipient list is kept.
SessionResetKeepsRecipients(session) == [session EXCEPT !.from = ""]

SessionReset(session) == [session EXCEPT !.from = "", !.to = <<>>]

\* strings.Join(s.to, ",")
RECURSIVE Join(_)
Join(to) ==
  IF to = <<>> THEN ""
  ELSE IF Len(to) = 1 THEN to[1]
  ELSE to[1] \o "," \o Join(Tail(to))

\* The Message literal of Data: UID is not set and keeps Go's zero value;
\* Date is the clock reading now.
\* The values max_message_bytes can take in the configuration file.
ConfiguredMaxBytes == 1 .. MaxConfiguredBytes

\* s.MaxMessageBytes of the server StartSMTPServer starts under a
\* configuration whose SMTP.MaxMessageBytes is configured: the literal
\* 1024 * 1024, whatever the configuration says.
MaxMessageBytes == 1048576

ServerMaxMessageBytes(configured) == MaxMessageBytes

\* io.ReadAll(r) in Data: the protocol engine's reader fails once the
\* payload passes the server's MaxMessageBytes, and Data returns that error.
ReadAll(body, limit) == IF Len(body) > limit THEN "falha ao ler email" ELSE Ok

DataMessage(session, mailboxId, body, now) ==
  [mailbox_id |-> mailboxId,
   uid |-> 0,
   from |-> session.from,
   to |-> Join(session.to),
   date |-> now,
   body |-> body,
   raw_data |-> body,
   size |-> Len(body),
   seen |-> FALSE, deleted |-> FALSE, draft |-> FALSE]

\* Data as one call: read the payload, resolve INBOX, then insert.
SmtpData(d, session, body, now) ==
  LET e == ReadAll(body, ServerMaxMessageBytes(MaxConfiguredBytes))
      g == GetMailbox(d, session.user, "INBOX")
  IN IF e # Ok THEN Result(d, e)
     ELSE IF g.err # Ok THEN Result(d, g.err)
     ELSE LET r == CreateMessage(d, DataMessage(session, g.mailbox.id, body, now))
          IN Result(r.db, r.err)

(***************************************************************************)
(* POP3 connections.  A connection is where its handler goroutine stands   *)
(* (pc: "none" before Accept, "greet" accepted with the greeting not yet   *)
(* written, "read" in conn.Read, "closed" after the handler returned and   *)
(* the deferred Close ran), the handler's local cmd, and out, the lines    *)
(* written to the connection.  log is history: the commands read so far,   *)
(* each PASS with the store as it was when the command was read.           *)
(***************************************************************************)
Pop3Sessions == 1 .. MaxPop3Sessions
Pop3Indices == 1 .. MaxPop3Index

NoCommand == [verb |-> "", name |-> "", n |-> 0]

Pop3Commands ==
  {[NoCommand EXCEPT !.verb = "USER", !.name = "alice"]}
  \cup {[NoCommand EXCEPT !.verb = "PASS", !.name = p] : p \in LoginPasswords}
  \cup {[NoCommand EXCEPT !.verb = v] : v \in {"STAT", "LIST", "RSET", "NOOP", "QUIT"}}
  \cup {[NoCommand EXCEPT !.verb = v, !.n = i] : v \in {"RETR", "DELE"}, i \in Pop3Indices}

NoConnection == [pc |-> "none", cmd |-> NoCommand, out |-> <<>>, log |-> <<>>]

\* conn.Write of the greeting line.
Greeting == [ok |-> TRUE, text |-> "SimpleEmail POP3 server ready"]

\* The entry the log keeps for a command read from store d.
LogEntry(cmd, d) ==
  [cmd |-> cmd, store |-> IF cmd.verb = "PASS" THEN d ELSE EmptyDb]

(***************************************************************************)
(* History kept for the properties.  hwm: per mailbox id, the highest UID  *)
(* ever stored in it (-1: none yet).  authed: the ids of the users a       *)
(* submission Login has authenticated.  lastOp: the last call, the error   *)
(* it returned, the mailbox id it worked on, whether the call before it    *)
(* was the same call on the same mailbox returning nil, how many message   *)
(* rows it removed, its arguments and the value it returned.               *)
(***************************************************************************)
Op(op, err, mailbox, removed) ==
  [op |-> op, err |-> err, mailbox |-> mailbox,
   again |-> lastOp.op = op /\ lastOp.mailbox = mailbox /\ lastOp.err = Ok,
   removed |-> removed, arg |-> <<>>, ret |-> <<>>]

\* The record of a session call with its arguments and returned value.
Call(op, err, mailbox, arg, ret) ==
  [Op(op, err, mailbox, 0) EXCEPT !.arg = arg, !.ret = ret]

NewMessages(d2, m) == {x \in MessagesOf(d2, {m}) : x.id \notin Ids(db.messages)}

NextHwm(d2) ==
  [m \in BusyMailboxIds |-> MaxOf({hwm[m]} \cup {x.uid : x \in NewMessages(d2, m)})]

\* A store call on the given mailbox returning r.
StoreStep(op, r, mailbox) ==
  /\ db' = r.db
  /\ hwm' = NextHwm(r.db)
  /\ lastOp' = Op(op, r.err, mailbox, Cardinality(Ids(db.messages) \ Ids(r.db.messages)))
  /\ UNCHANGED <<authed, flagUpdate, pop3>>

\* A call that reads the store and returns err.
ReadStep(op, err, mailbox) ==
  /\ lastOp' = Op(op, err, mailbox, 0)
  /\ UNCHANGED <<main, backend, db, hwm, authed, flagUpdate, pop3>>

\* A session call that leaves the store alone, recorded with its arguments
\* and returned value.
CallStep(op, err, mailbox, arg, ret) ==
  /\ lastOp' = Call(op, err, mailbox, arg, ret)
  /\ UNCHANGED <<main, backend, db, hwm, flagUpdate, pop3>>

(***************************************************************************)
(* The store object: its connection handle (the db field) and whether its  *)
(* Open has run and returned nil.                                          *)
(***************************************************************************)
\* NewSQLiteStorage creates the directory and returns the store with its
\* path set; the db field is left nil.
NewSQLiteStorage == [handle |-> FALSE, opened |-> FALSE]

\* NewPostgresStorage: sql.Open gives the handle; no schema statement runs.
NewPostgresStorage == [handle |-> TRUE, opened |-> FALSE]

NewStorage(type) ==
  IF type = "sqlite" THEN NewSQLiteStorage ELSE NewPostgresStorage

\* Open: sets the handle (SQLite) and creates the schema.
Open(store) == [handle |-> TRUE, opened |-> TRUE]

\* A store method called by an adapter: on an opened store it returns r;
\* on a store that was not opened the query runs on a nil handle (SQLite:
\* the call panics) or on a database whose schema Open did not create
\* (PostgreSQL: the query fails), and no row is returned.
OnStore(store, r) ==
  IF store.opened THEN r
  ELSE [user |-> [id |-> 0],
        err |-> IF store.handle THEN "schema ausente" ELSE "panic"]

(***************************************************************************)
(* Initial state: the store selected by NewStorage, opened by Open on an   *)
(* empty database, and handed to the three servers; no session.            *)
(***************************************************************************)
Init ==
  /\ backend \in Backends
  /\ main = [pc |-> "Serving", store |-> Open(NewStorage(backend))]
  /\ db = EmptyDb
  /\ smtp = [s \in SmtpSessions |-> NoSession]
  /\ imap = [s \in ImapSessions |-> [user |-> 0, mailbox |-> 0]]
  /\ pop3 = [c \in Pop3Sessions |-> NoConnection]
  /\ hwm = [m \in BusyMailboxIds |-> -1]
  /\ flagUpdate = [c \in FlagUpdates |-> NoFlagUpdate]
  /\ authed = {}
  /\ lastOp = [op |-> "Open", err |-> Ok, mailbox |-> 0, again |-> FALSE, removed |-> 0,
               arg |-> <<>>, ret |-> <<>>]

(***************************************************************************)
(* Store operations called directly (provisioning and administration).     *)
(* The caller passes ids of rows it read from the store; messages are      *)
(* stored in, and mailboxes deleted among, the mailbox ids BusyMailboxIds. *)
(***************************************************************************)
DoCreateUser ==
  \E username \in Usernames, email \in Emails, password \in Passwords :
    /\ db.seq.users < MaxUserIds
    /\ StoreStep("CreateUser",
                 CreateUser(db, [username |-> username, email |-> email,
                                 password |-> password], 0), 0)
    /\ UNCHANGED <<main, backend, smtp, imap>>

\* CreateUser for a further user, with an address of its own, while
\* another user exists.
DoCreateOtherUser ==
  \E username \in OtherUsernames, email \in OtherEmails, password \in Passwords :
    /\ 0 < db.seq.users /\ db.seq.users < MaxCoexistingUsers
    /\ StoreStep("CreateUser",
                 CreateUser(db, [username |-> username, email |-> email,
                                 password |-> password], 0), 0)
    /\ UNCHANGED <<main, backend, smtp, imap>>

\* CreateUser while the engine fails the INSERT of the failAt-th default
\* mailbox.
DoCreateUserFault ==
  \E username \in Usernames, email \in Emails, password \in Passwords,
     failAt \in 1 .. Len(DefaultMailboxes) :
    /\ db.seq.users < MaxUserIds
    /\ StoreStep("CreateUser",
                 CreateUser(db, [username |-> username, email |-> email,
                                 password |-> password], failAt), 0)
    /\ UNCHANGED <<main, backend, smtp, imap>>

DoDeleteUser ==
  \E userId \in Ids(db.users) :
    /\ StoreStep("DeleteUser", DeleteUser(db, userId), 0)
    /\ UNCHANGED <<main, backend, smtp, imap>>

DoDeleteMailbox ==
  \E mailboxId \in BusyMailboxIds \cap Ids(db.mailboxes) :
    /\ StoreStep("DeleteMailbox", DeleteMailbox(db, mailboxId), mailboxId)
    /\ UNCHANGED <<main, backend, smtp, imap>>

DoCreateMessage ==
  \E mailboxId \in BusyMailboxIds \cap Ids(db.mailboxes), uid \in 0 .. MaxUid,
     body \in Payloads :
    /\ db.seq.messages < MaxMessageIds
    /\ StoreStep("CreateMessage",
                 CreateMessage(db, [mailbox_id |-> mailboxId, uid |-> uid,
                                    from |-> "", to |-> "", date |-> ZeroTime,
                                    body |-> body, raw_data |-> body, size |-> Len(body),
                                    seen |-> FALSE, deleted |-> FALSE, draft |-> FALSE]),
                 mailboxId)
    /\ UNCHANGED <<main, backend, smtp, imap>>

\* The flags a caller of CreateMessage sets in the Message it passes.
InitialFlags == {{}, {SeenFlag}, {DeletedFlag}, {DraftFlag}}

\* CreateMessage with a Message that carries a date and flags.
DoCreateMessageDated ==
  \E mailboxId \in BusyMailboxIds \cap Ids(db.mailboxes), uid \in 0 .. MaxUid,
     body \in Payloads, date \in Dates, flags \in InitialFlags :
    /\ db.seq.messages < MaxMessageIds
    /\ StoreStep("CreateMessage",
                 CreateMessage(db, [mailbox_id |-> mailboxId, uid |-> uid,
                                    from |-> "", to |-> "", date |-> date,
                                    body |-> body, raw_data |-> body, size |-> Len(body),
                                    seen |-> SeenFlag \in flags,
                                    deleted |-> DeletedFlag \in flags,
                                    draft |-> DraftFlag \in flags]),
                 mailboxId)
    /\ UNCHANGED <<main, backend, smtp, imap>>

DoDeleteMessage ==
  \E messageId \in Ids(db.messages) :
    /\ StoreStep("DeleteMessage", DeleteMessage(db, messageId, FALSE), 0)
    /\ UNCHANGED <<main, backend, smtp, imap>>

DoCreateAttachment ==
  \E messageId \in Ids(db.messages) :
    /\ db.seq.attachments < MaxAttachmentIds
    /\ StoreStep("CreateAttachment", CreateAttachment(db, [message_id |-> messageId]), 0)
    /\ UNCHANGED <<main, backend, smtp, imap>>

DoDeleteAttachment ==
  \E attachmentId \in Ids(db.attachments) :
    /\ StoreStep("DeleteAttachment", DeleteAttachment(db, attachmentId), 0)
    /\ UNCHANGED <<main, backend, smtp, imap>>

(***************************************************************************)
(* Submission sessions.                                                    *)
(***************************************************************************)
SmtpLogin ==
  \E s \in SmtpSessions, username \in Usernames, password \in LoginPasswords :
    LET r == OnStore(main.store, AuthenticateUser(db, username, password))
    IN /\ main.pc = "Serving"
       /\ smtp[s].pc = "none"
       /\ smtp' = IF r.err = Ok
                  THEN [smtp EXCEPT ![s] = [NoSession EXCEPT !.user = r.user.id,
                                                             !.pc = "idle"]]
                  ELSE smtp
       /\ authed' = IF r.err = Ok THEN authed \cup {r.user.id} ELSE authed
       /\ CallStep("SmtpLogin", r.err, 0, <<s, username, password>>, r.user.id)
       /\ UNCHANGED imap

\* AnonymousLogin on a connection that has no session.
SmtpAnonymousLogin ==
  \E s \in SmtpSessions :
    LET r == AnonymousLogin(db)
    IN /\ main.pc = "Serving"
       /\ smtp[s].pc = "none"
       /\ smtp' = IF r.err = Ok THEN [smtp EXCEPT ![s] = r.session] ELSE smtp
       /\ CallStep("AnonymousLogin", r.err, 0, <<s>>, <<>>)
       /\ UNCHANGED <<imap, authed>>

SmtpMail ==
  \E s \in SmtpSessions, from \in Senders :
    /\ smtp[s].pc = "idle"
    /\ smtp' = [smtp EXCEPT ![s] = SessionMail(@, from)]
    /\ CallStep("Mail", Ok, 0, <<s, from>>, <<>>)
    /\ UNCHANGED <<imap, authed>>

SmtpRcpt ==
  \E s \in SmtpSessions, to \in Recipients :
    /\ smtp[s].pc = "idle"
    /\ Len(smtp[s].to) < MaxRcpts
    /\ smtp' = [smtp EXCEPT ![s] = SessionRcpt(@, to)]
    /\ CallStep("Rcpt", Ok, 0, <<s, to>>, <<>>)
    /\ UNCHANGED <<imap, authed>>

SmtpReset ==
  \E s \in SmtpSessions :
    /\ smtp[s].pc = "idle"
    /\ smtp' = [smtp EXCEPT ![s] = SessionReset(@)]
    /\ CallStep("Reset", Ok, 0, <<s>>, <<>>)
    /\ UNCHANGED <<imap, authed>>

\* Data, up to the return of GetMailbox: the payload is read first, and a
\* read error returns before the store is touched.
SmtpDataGetMailbox ==
  \E s \in SmtpSessions, body \in DataPayloads :
    LET e == ReadAll(body, ServerMaxMessageBytes(MaxConfiguredBytes))
        g == GetMailbox(db, smtp[s].user, "INBOX")
        ok == e = Ok /\ g.err = Ok
    IN /\ smtp[s].pc = "idle"
       /\ smtp' = IF ok
                  THEN [smtp EXCEPT ![s].pc = "data", ![s].mailbox = g.mailbox.id]
                  ELSE smtp
       /\ ReadStep(IF ok THEN "DataGetMailbox" ELSE "Data",
                   IF e # Ok THEN e ELSE g.err,
                   IF e # Ok THEN 0 ELSE g.mailbox.id)
       /\ UNCHANGED imap

\* Data, from the Message literal to its return.
SmtpDataCreateMessage ==
  \E s \in SmtpSessions, body \in DataPayloads, now \in Clock :
    LET r == CreateMessage(db, DataMessage(smtp[s], smtp[s].mailbox, body, now))
    IN /\ smtp[s].pc = "data"
       /\ ReadAll(body, ServerMaxMessageBytes(MaxConfiguredBytes)) = Ok
       /\ db.seq.messages < MaxMessageIds
       /\ db' = r.db
       /\ hwm' = NextHwm(r.db)
       /\ lastOp' = Call("Data", r.err, smtp[s].mailbox, <<s, body>>, <<>>)
       /\ smtp' = [smtp EXCEPT ![s].pc = "idle", ![s].mailbox = 0]
       /\ UNCHANGED <<main, backend, imap, pop3, authed, flagUpdate>>

(***************************************************************************)
(* Mailbox sessions.                                                       *)
(***************************************************************************)
ImapLogin ==
  \E s \in ImapSessions, username \in Usernames, password \in LoginPasswords :
    LET r == OnStore(main.store, AuthenticateUser(db, username, password))
    IN /\ main.pc = "Serving"
       /\ imap[s].user = 0
       /\ imap' = IF r.err = Ok THEN [imap EXCEPT ![s].user = r.user.id] ELSE imap
       /\ CallStep("ImapLogin", r.err, 0, <<s, username, password>>, r.user.id)
       /\ UNCHANGED <<smtp, authed>>

\* IMAPUser.GetMailbox: the session holds the returned mailbox object.
ImapGetMailbox ==
  \E s \in ImapSessions, name \in SelectNames :
    LET g == GetMailbox(db, imap[s].user, name)
    IN /\ imap[s].user # 0
       /\ imap' = IF g.err = Ok THEN [imap EXCEPT ![s].mailbox = g.mailbox.id] ELSE imap
       /\ ReadStep("GetMailbox", g.err, g.mailbox.id)
       /\ UNCHANGED smtp

\* IMAPUser.CreateMailbox: a Mailbox literal with the user and the name,
\* its Path left empty.
ImapCreateMailbox(d, userId, name) ==
  CreateMailbox(d, [user_id |-> userId, name |-> name, path |-> ""], FALSE)

\* Mutant of ImapRenameMailbox: the rename moves the storage path along
\* with the name.
ImapRenameMailboxMovesPath(d, userId, existingName, newName) ==
  LET g == GetMailbox(d, userId, existingName)
  IN IF g.err # Ok THEN Result(d, g.err)
     ELSE UpdateMailbox(d, [g.mailbox EXCEPT !.name = newName, !.path = newName])

\* IMAPUser.RenameMailbox: fetch the mailbox by its name, set the new name
\* on the fetched row, update it.
ImapRenameMailbox(d, userId, existingName, newName) ==
  LET g == GetMailbox(d, userId, existingName)
  IN IF g.err # Ok THEN Result(d, g.err)
     ELSE UpdateMailbox(d, [g.mailbox EXCEPT !.name = newName])

\* IMAPUser.DeleteMailbox: fetch the mailbox by its name, delete it by id.
ImapDeleteMailbox(d, userId, name) ==
  LET g == GetMailbox(d, userId, name)
  IN IF g.err # Ok THEN Result(d, g.err)
     ELSE DeleteMailbox(d, g.mailbox.id)

\* A session call that writes the store, recorded with its arguments.
StoreCallStep(op, r, arg) ==
  /\ db' = r.db
  /\ hwm' = NextHwm(r.db)
  /\ lastOp' = Call(op, r.err, 0, arg, <<>>)
  /\ UNCHANGED <<main, backend, smtp, imap, pop3, flagUpdate, authed>>

\* IMAPUser.ListMailboxes: the mailbox objects of the rows the store lists
\* for the session's user.
DoListMailboxes ==
  \E s \in ImapSessions :
    /\ imap[s].user # 0
    /\ CallStep("ListMailboxes", Ok, 0, <<imap[s].user>>,
                ListMailboxes(db, imap[s].user))
    /\ UNCHANGED <<smtp, imap, authed>>

DoImapCreateMailbox ==
  \E s \in ImapSessions, name \in MailboxNames :
    /\ imap[s].user # 0
    /\ db.seq.mailboxes < MaxMailboxIds
    /\ StoreCallStep("ImapCreateMailbox", ImapCreateMailbox(db, imap[s].user, name),
                     <<imap[s].user, name>>)

DoImapRenameMailbox ==
  \E s \in ImapSessions, existingName \in MailboxNames, newName \in MailboxNames :
    /\ imap[s].user # 0
    /\ StoreCallStep("ImapRenameMailbox",
                     ImapRenameMailbox(db, imap[s].user, existingName, newName),
                     <<imap[s].user, existingName, newName>>)

DoImapDeleteMailbox ==
  \E s \in ImapSessions, name \in MailboxNames :
    /\ imap[s].user # 0
    /\ StoreCallStep("ImapDeleteMailbox", ImapDeleteMailbox(db, imap[s].user, name),
                     <<imap[s].user, name>>)

\* The ids a fault can hit in a call on this mailbox (0: no fault).
FaultIds(mailboxId) == {0} \cup Ids(MessagesOf(db, {mailboxId}))

DoUpdateMessagesFlags ==
  \E s \in ImapSessions, seqSet \in SUBSET SeqNums, flags \in SUBSET ImapFlags :
    \E failId \in FaultIds(imap[s].mailbox) :
      /\ imap[s].mailbox # 0
      /\ StoreStep("UpdateMessagesFlags",
                   ImapUpdateMessagesFlags(db, imap[s].mailbox, seqSet, flags, failId),
                   imap[s].mailbox)
      /\ UNCHANGED <<main, backend, smtp, imap>>

\* Fetch: IMAPMailbox.ListMessages with the flags, size and UID items.
DoListMessages ==
  \E s \in ImapSessions, uid \in BOOLEAN, seqSet \in SUBSET SeqNums :
    /\ imap[s].mailbox # 0
    /\ CallStep("ListMessages", Ok, imap[s].mailbox, <<uid, seqSet>>,
                ImapListMessages(db, imap[s].mailbox, uid, seqSet))
    /\ UNCHANGED <<smtp, imap, authed>>

\* The search criteria of the model: no criterion, each single criterion
\* (a set {1}, a date bound at the middle instant, one flag test), and the
\* pair unseen + since.
FlagCriteria == {"Seen", "Unseen", "Deleted", "Undeleted", "Draft", "Undraft"}

MidDate == MaxDate - 1

NoCriteria ==
  [SeqNum |-> <<>>, Uid |-> <<>>, Since |-> ZeroTime, Before |-> ZeroTime,
   Seen |-> FALSE, Unseen |-> FALSE, Deleted |-> FALSE, Undeleted |-> FALSE,
   Draft |-> FALSE, Undraft |-> FALSE]

UnseenSince(t) == [NoCriteria EXCEPT !.Unseen = TRUE, !.Since = t]

SearchCriteria ==
  {NoCriteria,
   [NoCriteria EXCEPT !.SeqNum = <<{1}>>],
   [NoCriteria EXCEPT !.Uid = <<{1}>>],
   [NoCriteria EXCEPT !.Since = MidDate],
   [NoCriteria EXCEPT !.Before = MidDate],
   UnseenSince(MidDate)}
  \cup {[f \in DOMAIN NoCriteria |-> IF f = g THEN TRUE ELSE NoCriteria[f]] :
          g \in FlagCriteria}

DoSearchMessages ==
  \E s \in ImapSessions, uid \in BOOLEAN, c \in SearchCriteria :
    /\ imap[s].mailbox # 0
    /\ CallStep("SearchMessages", Ok, imap[s].mailbox, <<uid, c>>,
                ImapSearchMessages(db, imap[s].mailbox, uid, c))
    /\ UNCHANGED <<smtp, imap, authed>>

DoStatus ==
  \E s \in ImapSessions :
    /\ imap[s].mailbox # 0
    /\ CallStep("Status", Ok, imap[s].mailbox, <<>>, ImapStatus(db, imap[s].mailbox))
    /\ UNCHANGED <<smtp, imap, authed>>

\* UpdateMessagesFlags on another connection's mailbox object, up to the
\* return of ListMessages; a call whose set selects no listed message
\* returns without a write.
FlagUpdateListMessages ==
  \E c \in FlagUpdates, mailboxId \in BusyMailboxIds \cap Ids(db.mailboxes),
     seqSet \in SUBSET SeqNums, flags \in SUBSET ImapFlags :
    LET writes == PendingWrites(ListMessages(db, mailboxId), 1, seqSet, flags)
    IN /\ flagUpdate[c].pc = "idle"
       /\ flagUpdate' = [flagUpdate EXCEPT
                           ![c] = IF writes = <<>> THEN NoFlagUpdate
                                  ELSE [pc |-> "loop", mailbox |-> mailboxId,
                                        writes |-> writes]]
       /\ lastOp' = Op("UpdateListMessages", Ok, mailboxId, 0)
       /\ UNCHANGED <<main, backend, db, smtp, imap, pop3, hwm, authed>>

\* The next UpdateMessageFlags call of the loop; after the last one the
\* call returns.
FlagUpdateNext ==
  \E c \in FlagUpdates :
    LET call == flagUpdate[c]
        w == Head(call.writes)
        r == UpdateMessageFlags(db, w.id, w.seen, w.deleted, w.draft, FALSE)
    IN /\ call.pc = "loop"
       /\ db' = r.db
       /\ flagUpdate' = [flagUpdate EXCEPT
                           ![c] = IF Tail(call.writes) = <<>> THEN NoFlagUpdate
                                  ELSE [call EXCEPT !.writes = Tail(@)]]
       /\ lastOp' = Op("UpdateMessageFlags", r.err, call.mailbox, 0)
       /\ UNCHANGED <<main, backend, smtp, imap, pop3, hwm, authed>>

DoExpunge ==
  \E s \in ImapSessions :
    \E failId \in FaultIds(imap[s].mailbox) :
      /\ imap[s].mailbox # 0
      /\ StoreStep("Expunge", ImapExpunge(db, imap[s].mailbox, failId), imap[s].mailbox)
      /\ UNCHANGED <<main, backend, smtp, imap>>

(***************************************************************************)
(* main: the program's start.  The configuration is loaded, NewStorage     *)
(* builds the store, and the three servers are started on it.              *)
(***************************************************************************)
\* The state main starts in: the configuration names a backend, no store
\* exists yet, no listener is started.
InitMain ==
  /\ backend \in Backends
  /\ main = [pc |-> "NewStorage", store |-> [handle |-> FALSE, opened |-> FALSE]]
  /\ db = EmptyDb
  /\ smtp = [s \in SmtpSessions |-> NoSession]
  /\ imap = [s \in ImapSessions |-> [user |-> 0, mailbox |-> 0]]
  /\ pop3 = [c \in Pop3Sessions |-> NoConnection]
  /\ hwm = [m \in BusyMailboxIds |-> -1]
  /\ flagUpdate = [c \in FlagUpdates |-> NoFlagUpdate]
  /\ authed = {}
  /\ lastOp = [op |-> "LoadConfig", err |-> Ok, mailbox |-> 0, again |-> FALSE,
               removed |-> 0, arg |-> <<>>, ret |-> <<>>]

\* store, err := storage.NewStorage(cfg); an error ends the program.
MainNewStorage ==
  \E err \in {Ok, "falha ao criar diretorio"} :
    /\ main.pc = "NewStorage"
    /\ main' = IF err = Ok
               THEN [pc |-> "StartServers", store |-> NewStorage(backend)]
               ELSE [main EXCEPT !.pc = "Exited"]
    /\ lastOp' = Op("NewStorage", err, 0, 0)
    /\ UNCHANGED <<backend, db, smtp, imap, pop3, flagUpdate, hwm, authed>>

\* The three go statements: each server is started on the store as
\* NewStorage returned it, and main waits for an error or a signal.
MainStartServers ==
  /\ main.pc = "StartServers"
  /\ main' = [main EXCEPT !.pc = "Serving"]
  /\ lastOp' = Op("StartServers", Ok, 0, 0)
  /\ UNCHANGED <<backend, db, smtp, imap, pop3, flagUpdate, hwm, authed>>

(***************************************************************************)
(* POP3 connections: StartPOP3Server's accept loop and handleConnection.   *)
(***************************************************************************)
\* listener.Accept returns a connection and the handler goroutine starts.
Pop3Accept ==
  \E c \in Pop3Sessions :
    /\ main.pc = "Serving"
    /\ pop3[c].pc = "none"
    /\ pop3' = [pop3 EXCEPT ![c].pc = "greet"]
    /\ UNCHANGED <<main, backend, db, smtp, imap, flagUpdate, hwm, authed, lastOp>>

\* The greeting is written; the handler enters the read loop.
Pop3Greeting ==
  \E c \in Pop3Sessions :
    /\ pop3[c].pc = "greet"
    /\ pop3' = [pop3 EXCEPT ![c].pc = "read", ![c].out = Append(@, Greeting)]
    /\ UNCHANGED <<main, backend, db, smtp, imap, flagUpdate, hwm, authed, lastOp>>

\* One turn of the loop: conn.Read returns a command, cmd is assigned, and
\* the loop goes back to conn.Read.  Nothing else is done with the command.
Pop3Read ==
  \E c \in Pop3Sessions, cmd \in Pop3Commands :
    /\ pop3[c].pc = "read"
    /\ Len(pop3[c].log) < MaxPop3Commands
    /\ pop3' = [pop3 EXCEPT ![c].cmd = cmd,
                             ![c].log = Append(@, LogEntry(cmd, db))]
    /\ UNCHANGED <<main, backend, db, smtp, imap, flagUpdate, hwm, authed, lastOp>>

\* conn.Read returns an error (the client went away): the handler returns
\* and the deferred conn.Close runs.
Pop3ReadError ==
  \E c \in Pop3Sessions :
    /\ pop3[c].pc = "read"
    /\ pop3' = [pop3 EXCEPT ![c].pc = "closed"]
    /\ UNCHANGED <<main, backend, db, smtp, imap, flagUpdate, hwm, authed, lastOp>>

(***************************************************************************)
(* Specifications.                                                         *)
(*   Spec            every operation.                                      *)
(*   SpecStore       the store's operations alone, deletions included.     *)
(*   SpecSubmission  submission sessions over a provisioned store, with    *)
(*                   message deletion.                                     *)
(*   SpecMailbox     mailbox sessions over a provisioned store that        *)
(*                   CreateMessage fills.                                  *)
(***************************************************************************)
Next ==
  \/ DoCreateUser
  \/ DoCreateUserFault
  \/ DoDeleteUser
  \/ DoDeleteMailbox
  \/ DoCreateMessage
  \/ DoCreateMessageDated
  \/ DoDeleteMessage
  \/ DoCreateAttachment
  \/ DoDeleteAttachment
  \/ SmtpLogin
  \/ SmtpAnonymousLogin
  \/ SmtpMail
  \/ SmtpRcpt
  \/ SmtpReset
  \/ SmtpDataGetMailbox
  \/ SmtpDataCreateMessage
  \/ ImapLogin
  \/ ImapGetMailbox
  \/ DoListMessages
  \/ DoSearchMessages
  \/ DoStatus
  \/ DoUpdateMessagesFlags
  \/ FlagUpdateListMessages
  \/ FlagUpdateNext
  \/ DoExpunge
  \/ Pop3Accept
  \/ Pop3Greeting
  \/ Pop3Read
  \/ Pop3ReadError
  \/ DoImapCreateMailbox
  \/ DoImapRenameMailbox
  \/ DoImapDeleteMailbox
  \/ DoCreateOtherUser
  \/ DoListMailboxes

Spec == Init /\ [][Next]_vars

NextStore ==
  \/ DoCreateUser
  \/ DoCreateUserFault
  \/ DoDeleteUser
  \/ DoDeleteMailbox
  \/ DoCreateMessage
  \/ DoDeleteMessage
  \/ DoCreateAttachment
  \/ DoDeleteAttachment

SpecStore == Init /\ [][NextStore]_vars

NextSubmission ==
  \/ DoCreateUser
  \/ DoDeleteMessage
  \/ SmtpLogin
  \/ SmtpDataGetMailbox
  \/ SmtpDataCreateMessage

SpecSubmission == Init /\ [][NextSubmission]_vars

NextMailbox ==
  \/ DoCreateUser
  \/ DoCreateMessage
  \/ ImapLogin
  \/ ImapGetMailbox
  \/ DoUpdateMessagesFlags
  \/ DoExpunge

SpecMailbox == Init /\ [][NextMailbox]_vars

\* Flag updates of two connections on an INBOX that a submission filled:
\* the session's call runs to its return between two statements of the
\* other's.
NextFlags ==
  \/ DoCreateUser
  \/ SmtpLogin
  \/ SmtpDataGetMailbox
  \/ SmtpDataCreateMessage
  \/ ImapLogin
  \/ ImapGetMailbox
  \/ DoUpdateMessagesFlags
  \/ FlagUpdateListMessages
  \/ FlagUpdateNext

SpecFlags == Init /\ [][NextFlags]_vars

\* The transaction of a submission session: anonymous and authenticated
\* logins, sender, recipients, reset and the two steps of Data.
NextTransaction ==
  \/ DoCreateUser
  \/ SmtpLogin
  \/ SmtpAnonymousLogin
  \/ SmtpMail
  \/ SmtpRcpt
  \/ SmtpReset
  \/ SmtpDataGetMailbox
  \/ SmtpDataCreateMessage

SpecTransaction == Init /\ [][NextTransaction]_vars

\* The reading calls of a mailbox session over a store that CreateMessage
\* fills with dated, flagged messages.
NextRead ==
  \/ DoCreateUser
  \/ DoCreateMessageDated
  \/ ImapLogin
  \/ ImapGetMailbox
  \/ DoListMessages
  \/ DoSearchMessages
  \/ DoStatus

SpecRead == Init /\ [][NextRead]_vars

\* Logins of both adapters while users are created and deleted.
NextLogin ==
  \/ DoCreateUser
  \/ DoDeleteUser
  \/ SmtpLogin
  \/ ImapLogin

SpecLogin == Init /\ [][NextLogin]_vars

\* Two users side by side: submission sessions that commit into their
\* INBOX and a mailbox session that lists its mailboxes, selects one, flags
\* and expunges.
NextIsolation ==
  \/ DoCreateUser
  \/ DoCreateOtherUser
  \/ SmtpLogin
  \/ SmtpDataGetMailbox
  \/ SmtpDataCreateMessage
  \/ ImapLogin
  \/ ImapGetMailbox
  \/ DoListMailboxes
  \/ DoUpdateMessagesFlags
  \/ DoExpunge

SpecIsolation == Init /\ [][NextIsolation]_vars

\* Mailbox management of a logged-in user.
\* The program from its start: main, then the connections the listeners
\* accept and the logins on them.
NextStartup ==
  \/ MainNewStorage
  \/ MainStartServers
  \/ SmtpLogin
  \/ SmtpAnonymousLogin
  \/ ImapLogin
  \/ Pop3Accept
  \/ Pop3Greeting
  \/ Pop3ReadError

SpecStartup == InitMain /\ [][NextStartup]_vars

NextManage ==
  \/ DoCreateUser
  \/ DoCreateMessage
  \/ ImapLogin
  \/ DoImapCreateMailbox
  \/ DoImapRenameMailbox
  \/ DoImapDeleteMailbox

SpecManage == Init /\ [][NextManage]_vars

\* A POP3 connection while a user is provisioned and messages arrive in
\* the store.
NextMaildrop ==
  \/ DoCreateUser
  \/ DoCreateMessage
  \/ Pop3Accept
  \/ Pop3Greeting
  \/ Pop3Read
  \/ Pop3ReadError

SpecMaildrop == Init /\ [][NextMaildrop]_vars

(***************************************************************************)
(* Properties.                                                             *)
(***************************************************************************)
Uids(d, m) == {x.uid : x \in MessagesOf(d, {m})}

Count(d, m) == Cardinality(MessagesOf(d, {m}))

\* The step in which session s returns from Data after its CreateMessage.
DataReturns(s) == smtp[s].pc = "data" /\ smtp'[s].pc = "idle"

\* C1: N concurrent submissions into one initially empty mailbox all
\* complete and leave exactly the UIDs 1..N there.  Stated per submission:
\* a submission that finds the mailbox holding the UIDs 1..k of k earlier
\* submissions returns nil and leaves the UIDs 1..k+1, whatever the other
\* sessions did in between.
C1_SubmissionsYieldUids1toN ==
  [][\A s \in SmtpSessions :
       LET m == smtp[s].mailbox
       IN (/\ DataReturns(s)
           /\ m \in Ids(db.mailboxes)
           /\ Uids(db, m) = 1 .. Count(db, m))
          => /\ lastOp'.err = Ok
             /\ Uids(db', m) = 1 .. (Count(db, m) + 1)]_vars

\* The UID the claim expects createMessage to assign in mailbox m.
NextUid(d, m) == IF Uids(d, m) = {} THEN 1 ELSE MaxOf(Uids(d, m)) + 1

\* C2: every message a step inserts carries the UID max+1 of its mailbox
\* (1 for an empty mailbox), whatever UID the caller passed.
C2_CreateMessageAssignsNextUid ==
  [][\A x \in db'.messages :
       x.id \notin Ids(db.messages) => x.uid = NextUid(db, x.mailbox_id)]_vars

\* C3: a Data call of an authenticated session whose INBOX exists returns
\* nil and leaves exactly one more message in that INBOX.
C3_EveryDataCommitsOneMessage ==
  [][\A s \in SmtpSessions :
       LET m == smtp[s].mailbox
       IN (DataReturns(s) /\ m \in Ids(db.mailboxes))
          => /\ lastOp'.err = Ok
             /\ Count(db', m) = Count(db, m) + 1]_vars

\* C4: a newly stored message has a UID above every UID ever stored in its
\* mailbox, the UIDs of removed messages included.
C4_UidsNeverReused ==
  [][\A m \in BusyMailboxIds : \A x \in NewMessages(db', m) : x.uid > hwm[m]]_vars

\* The number of messages of the mailbox with a UID up to this one's.
Rank(d, msg) ==
  Cardinality({x \in MessagesOf(d, {msg.mailbox_id}) : x.uid <= msg.uid})

\* C5: the store lists every mailbox in strictly ascending UID order, and
\* the adapter's listing numbers that order 1..n: the message with sequence
\* number i is the one with i-1 messages of lower UID.
C5_ListingAscendingWithSeqNums ==
  \A m \in 1 .. db.seq.mailboxes :
    LET L == ListMessages(db, m)
        F == ImapListMessages(db, m, FALSE, 1 .. Len(L))
    IN /\ Len(L) = Count(db, m)
       /\ {L[i] : i \in 1 .. Len(L)} = MessagesOf(db, {m})
       /\ \A i, j \in 1 .. Len(L) : i < j => L[i].uid < L[j].uid
       /\ Len(F) = Len(L)
       /\ \A i \in 1 .. Len(F) :
            /\ F[i].SeqNum = i
            /\ \E x \in MessagesOf(db, {m}) : x.id = F[i].Uid /\ Rank(db, x) = i

\* C5 witness: a mailbox whose two messages were stored in descending UID
\* order, after an earlier message was removed from the store.
C5_Witness ==
  /\ Cardinality(db.messages) < db.seq.messages
  /\ \E a, b \in db.messages :
       a.mailbox_id = b.mailbox_id /\ a.id < b.id /\ a.uid > b.uid

NoOrphans(d) ==
  /\ \A b \in d.mailboxes : b.user_id \in Ids(d.users)
  /\ \A x \in d.messages : x.mailbox_id \in Ids(d.mailboxes)
  /\ \A a \in d.attachments : a.message_id \in Ids(d.messages)

\* C6: deletion cascades in both backends: no mailbox, message or
\* attachment ever exists whose owner is absent, so a deleted user leaves no
\* mailbox, a deleted mailbox no message, a deleted message no attachment.
C6_DeletionCascades == NoOrphans(db)

\* C7: Expunge removes only messages of its mailbox whose deleted flag is
\* set, lowest UID first (a flagged message that is left has a higher UID
\* than every removed one), touches no other row, and when it returns nil
\* leaves exactly the unflagged messages, unchanged.
C7_ExpungeRemovesExactlyDeleted ==
  [][lastOp'.op = "Expunge" =>
       LET m == lastOp'.mailbox
           before == MessagesOf(db, {m})
           after == MessagesOf(db', {m})
       IN /\ after \subseteq before
          /\ \A x \in before \ after : x.deleted
          /\ \A x \in before \ after, y \in after : y.deleted => x.uid < y.uid
          /\ lastOp'.err = Ok => after = {x \in before : ~x.deleted}
          /\ db'.messages \ after = db.messages \ before]_vars

\* C7 witness: an Expunge returned nil, removed a message and left an
\* unflagged one.
C7_Witness ==
  /\ lastOp.op = "Expunge" /\ lastOp.err = Ok /\ lastOp.removed > 0
  /\ \E x \in MessagesOf(db, {lastOp.mailbox}) : ~x.deleted

\* C8: an Expunge that directly follows a completed Expunge of the same
\* mailbox returns nil and changes nothing in the store.
C8_ExpungeIdempotent ==
  [][(lastOp'.op = "Expunge" /\ lastOp'.again) => (lastOp'.err = Ok /\ db' = db)]_vars

\* C8 witness: the second of two Expunges in a row has returned, on a
\* mailbox that lost a message and still holds one.
C8_Witness ==
  /\ lastOp.op = "Expunge" /\ lastOp.again /\ lastOp.err = Ok
  /\ Cardinality(db.messages) < db.seq.messages
  /\ MessagesOf(db, {lastOp.mailbox}) # {}

DefaultNames == {DefaultMailboxes[i] : i \in 1 .. Len(DefaultMailboxes)}

\* C9: a CreateUser that returns an error leaves neither the user nor any
\* mailbox behind; one that returns nil adds one user owning exactly the
\* four default mailboxes.
C9_CreateUserAllOrNothing ==
  [][lastOp'.op = "CreateUser" =>
       IF lastOp'.err # Ok
       THEN db'.users = db.users /\ db'.mailboxes = db.mailboxes
       ELSE \E u \in db'.users :
              LET own == {b \in db'.mailboxes : b.user_id = u.id}
              IN /\ u \notin db.users
                 /\ db'.users = db.users \cup {u}
                 /\ Cardinality(own) = Len(DefaultMailboxes)
                 /\ {b.name : b \in own} = DefaultNames]_vars

\* C10: the scenario.  Right after one submission of the 10-byte body into
\* an empty INBOX, the INBOX lists one message with UID 1, sequence number
\* 1, size 10, unseen; adding Seen on sequence 1 makes Status report no
\* unseen message; adding Deleted and expunging empties the INBOX, and a
\* second Expunge returns nil and changes nothing.
C10_Scenario ==
  LET m == lastOp.mailbox
      L == ListMessages(db, m)
      F == ImapListMessages(db, m, FALSE, {1})
      seen == ImapUpdateMessagesFlags(db, m, {1}, {SeenFlag}, 0)
      status == ImapStatus(seen.db, m)
      deleted == ImapUpdateMessagesFlags(seen.db, m, {1}, {DeletedFlag}, 0)
      first == ImapExpunge(deleted.db, m, 0)
      second == ImapExpunge(first.db, m, 0)
  IN (/\ lastOp.op = "Data" /\ lastOp.err = Ok
      /\ Count(db, m) = 1
      /\ \A x \in MessagesOf(db, {m}) : x.raw_data = Payload10)
     => /\ Len(L) = 1 /\ L[1].uid = 1 /\ L[1].size = 10 /\ ~L[1].seen
        /\ Len(F) = 1 /\ F[1].SeqNum = 1
        /\ seen.err = Ok /\ status.Unseen = 0
        /\ deleted.err = Ok /\ first.err = Ok
        /\ ListMessages(first.db, m) = <<>>
        /\ second.err = Ok /\ second.db = first.db

\* C11: AuthenticateUser fails with ErrUserNotFound when no user has the
\* username, fails with the invalid-password error when the user exists and
\* its stored password differs from the supplied one, and otherwise returns
\* that user; a Login of either adapter binds its session to the returned
\* user exactly when AuthenticateUser returned nil, and yields no session
\* (every session is left as it was) when it returned an error.
C11_AuthenticateAndLogin ==
  [][lastOp'.op \in {"SmtpLogin", "ImapLogin"} =>
       LET s == lastOp'.arg[1]
           username == lastOp'.arg[2]
           password == lastOp'.arg[3]
           named == {u \in db.users : u.username = username}
           matching == {u \in named : u.password = password}
       IN /\ named = {} => lastOp'.err = "ErrUserNotFound"
          /\ (named # {} /\ matching = {}) => lastOp'.err = "senha invalida"
          /\ matching # {} => (lastOp'.err = Ok /\ lastOp'.ret \in Ids(matching))
          /\ IF lastOp'.op = "SmtpLogin"
             THEN /\ imap' = imap
                  /\ \A t \in SmtpSessions \ {s} : smtp'[t] = smtp[t]
                  /\ IF lastOp'.err = Ok
                     THEN /\ smtp'[s].pc # "none"
                          /\ smtp'[s].user \in Ids(matching)
                     ELSE smtp'[s] = smtp[s]
             ELSE /\ smtp' = smtp
                  /\ \A t \in ImapSessions \ {s} : imap'[t] = imap[t]
                  /\ IF lastOp'.err = Ok
                     THEN imap'[s].user \in Ids(matching)
                     ELSE imap'[s] = imap[s]]_vars

\* C11 witness: a submission Login with a wrong password has just failed
\* while a mailbox session is bound to the user a Login authenticated.
C11_Witness ==
  /\ lastOp.op = "SmtpLogin" /\ lastOp.err = "senha invalida"
  /\ \E s \in ImapSessions : imap[s].user \in Ids(db.users)
  /\ \A s \in SmtpSessions : smtp[s].pc = "none"

Elems(seq) == {seq[i] : i \in 1 .. Len(seq)}

\* C12: a listing addressed by UID returns exactly the messages whose UID
\* is in the requested set, and a listing addressed by sequence number
\* exactly those whose position in the ascending-UID listing is in the set.
\* The returned messages are identified by the position the reply gives.
C12_ListingHonorsBothModes ==
  lastOp.op = "ListMessages" =>
    LET m == lastOp.mailbox
        uid == lastOp.arg[1]
        set == lastOp.arg[2]
        L == ListMessages(db, m)
        returned == {L[it.SeqNum] : it \in Elems(lastOp.ret)}
    IN IF uid
       THEN returned = {x \in MessagesOf(db, {m}) : x.uid \in set}
       ELSE returned = {L[i] : i \in set \cap (1 .. Len(L))}

\* The messages a search reply names: by row id when the caller asked for
\* UIDs, by position otherwise.
Found(d, m, uid, ret) ==
  IF uid THEN {x \in MessagesOf(d, {m}) : x.id \in Elems(ret)}
  ELSE {ListMessages(d, m)[i] : i \in Elems(ret)}

\* The criteria as the specification states them: membership of the
\* position and of the UID in the supplied sets, since keeps the dates at
\* or after the bound, before keeps the dates strictly before it, and each
\* flag criterion tests its flag.
Satisfies(msg, i, c) ==
  /\ c.SeqNum # <<>> => i \in c.SeqNum[1]
  /\ c.Uid # <<>> => msg.uid \in c.Uid[1]
  /\ c.Since # ZeroTime => msg.date >= c.Since
  /\ c.Before # ZeroTime => msg.date < c.Before
  /\ c.Seen => msg.seen
  /\ c.Unseen => ~msg.seen
  /\ c.Deleted => msg.deleted
  /\ c.Undeleted => ~msg.deleted
  /\ c.Draft => msg.draft
  /\ c.Undraft => ~msg.draft

\* C13: a search returns a message if and only if it satisfies all the
\* supplied criteria together.
C13_SearchIsConjunction ==
  lastOp.op = "SearchMessages" =>
    LET m == lastOp.mailbox
        L == ListMessages(db, m)
    IN Found(db, m, lastOp.arg[1], lastOp.ret)
         = {L[i] : i \in {j \in 1 .. Len(L) : Satisfies(L[j], j, lastOp.arg[2])}}

\* The reply lists the messages in the order of the ascending-UID listing,
\* each once.
InListingOrder(d, m, uid, ret) ==
  LET L == ListMessages(d, m)
      pos(k) == IF uid THEN CHOOSE i \in 1 .. Len(L) : L[i].id = ret[k] ELSE ret[k]
  IN /\ \A k \in 1 .. Len(ret) :
          IF uid THEN \E i \in 1 .. Len(L) : L[i].id = ret[k] ELSE ret[k] \in 1 .. Len(L)
     /\ \A k, l \in 1 .. Len(ret) : k < l => pos(k) < pos(l)

C15_DateBoundsExclusive ==
  lastOp.op = "SearchMessages" =>
    LET m == lastOp.mailbox
        c == lastOp.arg[2]
        found == Found(db, m, lastOp.arg[1], lastOp.ret)
    IN /\ c = [NoCriteria EXCEPT !.Since = c.Since]
          => found = {x \in MessagesOf(db, {m}) : c.Since # ZeroTime => x.date >= c.Since}
       /\ c = [NoCriteria EXCEPT !.Before = c.Before]
          => found = {x \in MessagesOf(db, {m}) : c.Before # ZeroTime => x.date < c.Before}

\* C17: Status reports as next UID the maximum UID of the mailbox plus one
\* (1 for an empty mailbox), a value above the UID of every message the
\* mailbox holds, and always the same UID validity.
C17_StatusUidNextIsMaxPlusOne ==
  lastOp.op = "Status" =>
    LET m == lastOp.mailbox
    IN /\ lastOp.ret.UidNext = NextUid(db, m)
       /\ \A x \in MessagesOf(db, {m}) : lastOp.ret.UidNext > x.uid
       /\ lastOp.ret.UidValidity = ImapStatus(EmptyDb, m).UidValidity

\* The messages a step adds to the store.
Added == {x \in db'.messages : x.id \notin Ids(db.messages)}

\* C18: Mail sets the sender, Rcpt appends its recipient to the list, and a
\* message committed by Data lies in the INBOX of the session's user, carries
\* the session's sender and its recipients in the order added, has the
\* payload in body and raw bytes, the payload's length as size, and seen,
\* deleted and draft all false.
C18_CommittedMessageCarriesTransaction ==
  [][\A s \in SmtpSessions :
       /\ (lastOp'.op = "Mail" /\ lastOp'.arg[1] = s)
          => smtp'[s] = [smtp[s] EXCEPT !.from = lastOp'.arg[2]]
       /\ (lastOp'.op = "Rcpt" /\ lastOp'.arg[1] = s)
          => /\ Len(smtp'[s].to) = Len(smtp[s].to) + 1
             /\ SubSeq(smtp'[s].to, 1, Len(smtp[s].to)) = smtp[s].to
             /\ smtp'[s].to[Len(smtp'[s].to)] = lastOp'.arg[2]
             /\ smtp'[s] = [smtp[s] EXCEPT !.to = smtp'[s].to]
       /\ (DataReturns(s) /\ lastOp'.err = Ok)
          => /\ Cardinality(Added) = 1
             /\ \A x \in Added :
                  /\ \E b \in db.mailboxes :
                       b.id = x.mailbox_id /\ b.user_id = smtp[s].user /\ b.name = "INBOX"
                  /\ x.from = smtp[s].from
                  /\ x.to = Join(smtp[s].to)
                  /\ x.body = lastOp'.arg[2] /\ x.raw_data = lastOp'.arg[2]
                  /\ x.size = Len(lastOp'.arg[2])
                  /\ ~x.seen /\ ~x.deleted /\ ~x.draft]_vars

\* C18 witness: a message with a sender and two recipients, in the order
\* carol then bob, has been committed.
C18_Witness ==
  /\ lastOp.op = "Data" /\ lastOp.err = Ok
  /\ \E x \in db.messages :
       /\ x.from = "alice@example.org"
       /\ x.to = "carol@example.org,bob@example.org"
       /\ x.size = Len(Payload2)

\* C19: a Reset clears the session's sender and recipient list, keeps its
\* user, changes no other session and nothing in the store; a message
\* built after the Reset and one more Rcpt carries that recipient alone.
C19_ResetClearsTransaction ==
  [][lastOp'.op = "Reset" =>
       LET s == lastOp'.arg[1]
       IN /\ smtp'[s].from = "" /\ smtp'[s].to = <<>>
          /\ smtp'[s].user = smtp[s].user
          /\ \A t \in SmtpSessions \ {s} : smtp'[t] = smtp[t]
          /\ db' = db /\ imap' = imap
          /\ \A to \in Recipients, body \in DataPayloads, now \in Clock :
               DataMessage(SessionRcpt(smtp'[s], to), 1, body, now).to = to]_vars

\* C19 witness: a Reset has just cleared an authenticated session, after a
\* message was committed and while a session holds two recipients.
C19_Witness ==
  /\ lastOp.op = "Reset"
  /\ smtp[lastOp.arg[1]].to = <<>> /\ smtp[lastOp.arg[1]].user # 0
  /\ db.messages # {}
  /\ \E t \in SmtpSessions : Len(smtp[t].to) = MaxRcpts

\* C20: AnonymousLogin returns an error and yields no session; every
\* session there is holds a user that a Login authenticated, and every
\* message a Data call commits lies in a mailbox owned by such a user.
C20_NoAnonymousSubmission ==
  [][/\ lastOp'.op = "AnonymousLogin" => (lastOp'.err # Ok /\ smtp' = smtp)
     /\ \A s \in SmtpSessions : smtp'[s].pc # "none" => smtp'[s].user \in authed'
     /\ \A s \in SmtpSessions :
          DataReturns(s) =>
            \A x \in Added :
              \E b \in db.mailboxes : b.id = x.mailbox_id /\ b.user_id \in authed]_vars

\* C20 witness: an AnonymousLogin has just been rejected in a store that
\* holds a committed message.
C20_Witness ==
  /\ lastOp.op = "AnonymousLogin" /\ lastOp.err # Ok
  /\ db.messages # {}
  /\ \E s \in SmtpSessions : smtp[s].pc = "none"

\* The flag update of the claim applied to a store: every listed message
\* whose sequence number is in the set has the named flags true and its
\* other flags as before; every other message is unchanged.
AddsFlags(d, d2, m, seqSet, flags) ==
  LET L == ListMessages(d, m)
      selected == {L[i] : i \in seqSet \cap (1 .. Len(L))}
  IN /\ Ids(d2.messages) = Ids(d.messages)
     /\ \A x \in d.messages \ selected : x \in d2.messages
     /\ \A x \in selected :
          [x EXCEPT !.seen = @ \/ SeenFlag \in flags,
                    !.deleted = @ \/ DeletedFlag \in flags,
                    !.draft = @ \/ DraftFlag \in flags] \in d2.messages

\* C16: a flag update adds and never clears.  A flag update that runs
\* alone and returns nil leaves the named flags true on the messages of the
\* set and everything else as it was; and every write any flag update makes
\* leaves all messages in place with their UID, body and size and turns no
\* flag of any message from true to false.
C16_FlagUpdateOnlyAdds ==
  [][/\ \A m \in BusyMailboxIds, seqSet \in SUBSET SeqNums, flags \in SUBSET ImapFlags :
          AddsFlags(db, ImapUpdateMessagesFlags(db, m, seqSet, flags, 0).db,
                    m, seqSet, flags)
     /\ lastOp'.op \in {"UpdateMessagesFlags", "UpdateMessageFlags"}
        => /\ Ids(db'.messages) = Ids(db.messages)
           /\ \A x \in db.messages : \A y \in db'.messages :
                y.id = x.id =>
                  /\ y.uid = x.uid /\ y.body = x.body /\ y.size = x.size
                  /\ x.seen => y.seen
                  /\ x.deleted => y.deleted
                  /\ x.draft => y.draft]_vars

\* C21: a payload larger than the configured maximum message size is
\* rejected and never persisted.  Whatever maximum the configuration sets,
\* a Data call whose payload is longer than it returns an error and leaves
\* the message rows of the store, those of the target mailbox included, as
\* they were.
C21_OversizedPayloadRejected ==
  [][\A configured \in ConfiguredMaxBytes :
       (lastOp'.op = "Data" /\ lastOp'.arg # <<>>
          /\ Len(lastOp'.arg[2]) > configured)
       => (lastOp'.err # Ok /\ db'.messages = db.messages)]_vars

(***************************************************************************)
(* The maildrop session of the retrieval protocol, as a function of the    *)
(* commands a connection has read: its stage, the user name given, the     *)
(* snapshot (the ids of the INBOX listing at the moment the password was   *)
(* accepted) and the indices marked deleted in this session.               *)
(***************************************************************************)
Authorization == [stage |-> "AUTHORIZATION", name |-> "", snap |-> <<>>, marks |-> {}]

Snapshot(d, username) ==
  LET g == GetMailbox(d, GetUser(d, username).user.id, "INBOX")
      L == ListMessages(d, g.mailbox.id)
  IN [i \in 1 .. Len(L) |-> L[i].id]

Addressable(sess, n) == n \in 1 .. Len(sess.snap) /\ n \notin sess.marks

MaildropStep(sess, e) ==
  IF sess.stage = "AUTHORIZATION"
  THEN IF e.cmd.verb = "USER" THEN [sess EXCEPT !.name = e.cmd.name]
       ELSE IF e.cmd.verb = "PASS"
       THEN IF sess.name # "" /\ AuthenticateUser(e.store, sess.name, e.cmd.name).err = Ok
            THEN [stage |-> "TRANSACTION", name |-> sess.name,
                  snap |-> Snapshot(e.store, sess.name), marks |-> {}]
            ELSE Authorization
       ELSE IF e.cmd.verb = "QUIT" THEN [sess EXCEPT !.stage = "CLOSED"]
       ELSE sess
  ELSE IF sess.stage = "TRANSACTION"
  THEN IF e.cmd.verb = "DELE" /\ Addressable(sess, e.cmd.n)
       THEN [sess EXCEPT !.marks = @ \cup {e.cmd.n}]
       ELSE IF e.cmd.verb = "RSET" THEN [sess EXCEPT !.marks = {}]
       ELSE IF e.cmd.verb = "QUIT" THEN [sess EXCEPT !.stage = "UPDATE"]
       ELSE sess
  ELSE sess

RECURSIVE Maildrop(_)
Maildrop(log) ==
  IF Len(log) = 0 THEN Authorization
  ELSE MaildropStep(Maildrop(SubSeq(log, 1, Len(log) - 1)), log[Len(log)])

\* The step is connection c reading one command; the command it read; the
\* step writes exactly one response line, positive or negative as given.
JustRead(c) == Len(pop3'[c].log) = Len(pop3[c].log) + 1

Command(c) == pop3'[c].cmd

Answered(c, ok) ==
  /\ Len(pop3'[c].out) = Len(pop3[c].out) + 1
  /\ SubSeq(pop3'[c].out, 1, Len(pop3[c].out)) = pop3[c].out
  /\ pop3'[c].out[Len(pop3'[c].out)].ok = ok

\* C22: the messages a maildrop session deletes from the store are exactly
\* those marked deleted-this-session at a graceful QUIT.  Reading QUIT in
\* TRANSACTION removes from the store the snapshot messages whose indices
\* are marked and no other message; reading any other command removes
\* nothing; and a connection that closes without a QUIT leaves the store as
\* it was.
C22_QuitDeletesExactlyMarked ==
  [][\A c \in Pop3Sessions :
       LET sess == Maildrop(pop3[c].log)
           marked == {sess.snap[i] : i \in sess.marks}
       IN /\ JustRead(c) =>
               IF Command(c).verb = "QUIT" /\ sess.stage = "TRANSACTION"
               THEN Ids(db'.messages) = Ids(db.messages) \ marked
               ELSE db' = db
          /\ (pop3[c].pc # "closed" /\ pop3'[c].pc = "closed"
                /\ pop3'[c].cmd.verb # "QUIT")
             => db' = db]_vars

\* C23: a maildrop session starts in AUTHORIZATION; a user name followed by
\* the correct password is answered positively and the connection stays
\* open for the TRANSACTION; a failed password is answered negatively; and
\* STAT, LIST, RETR, DELE and RSET read before authentication succeeded are
\* answered negatively and change nothing in the store.
C23_AuthorizationThenTransaction ==
  [][\A c \in Pop3Sessions :
       LET sess == Maildrop(pop3[c].log)
           after == Maildrop(pop3'[c].log)
       IN (JustRead(c) /\ sess.stage = "AUTHORIZATION") =>
            /\ Command(c).verb = "PASS" =>
                 IF after.stage = "TRANSACTION"
                 THEN Answered(c, TRUE) /\ pop3'[c].pc = "read"
                 ELSE Answered(c, FALSE)
            /\ Command(c).verb \in {"STAT", "LIST", "RETR", "DELE", "RSET"}
               => (Answered(c, FALSE) /\ db' = db)]_vars

\* C24: a TRANSACTION works on the snapshot taken at entry.  Whatever the
\* store holds by now, RETR and DELE of an index that is within the
\* snapshot and not marked are answered positively, as are STAT, LIST and
\* RSET; a mark comes from DELE alone and RSET clears all marks, so an
\* index marked and then reset is addressable again.
C24_TransactionUsesSnapshot ==
  [][\A c \in Pop3Sessions :
       LET sess == Maildrop(pop3[c].log)
       IN (JustRead(c) /\ sess.stage = "TRANSACTION") =>
            /\ (Command(c).verb \in {"RETR", "DELE"} /\ Addressable(sess, Command(c).n))
               => Answered(c, TRUE)
            /\ Command(c).verb \in {"STAT", "LIST", "RSET"} => Answered(c, TRUE)]_vars

\* C25: in TRANSACTION, RETR or DELE of an index outside the snapshot, or
\* of a message already marked deleted, is answered negatively; the
\* connection stays open and the store is untouched.
C25_BadIndexIsNotFatal ==
  [][\A c \in Pop3Sessions :
       LET sess == Maildrop(pop3[c].log)
       IN (JustRead(c) /\ sess.stage = "TRANSACTION"
             /\ Command(c).verb \in {"RETR", "DELE"}
             /\ ~Addressable(sess, Command(c).n))
          => (Answered(c, FALSE) /\ pop3'[c].pc = "read" /\ db' = db)]_vars

\* C26: the greeting is written on connect before any command is read, and
\* every command read is answered with exactly one response: whenever the
\* handler waits for the next command or has returned, the lines written
\* are the greeting followed by one response per command read, and before
\* the greeting nothing was read or written.
C26_GreetingThenOneReplyPerCommand ==
  \A c \in Pop3Sessions :
    /\ pop3[c].pc \in {"none", "greet"} => (pop3[c].out = <<>> /\ Len(pop3[c].log) = 0)
    /\ pop3[c].pc \in {"read", "closed"}
       => (/\ Len(pop3[c].out) = 1 + Len(pop3[c].log)
           /\ pop3[c].out[1] = Greeting
           /\ \A i \in DOMAIN pop3[c].out : pop3[c].out[i].ok \in BOOLEAN)

\* No user owns two mailboxes of one name.
NamesUnique(d) ==
  \A b \in d.mailboxes, c \in d.mailboxes :
    (b.user_id = c.user_id /\ b.name = c.name) => b.id = c.id

\* The user owns a mailbox of this name other than the one called except.
NameTaken(d, userId, name, except) ==
  \E b \in d.mailboxes : b.user_id = userId /\ b.name = name /\ b.id # except

\* C27: after any sequence of createUser and mailbox create, rename and
\* delete, no user owns two mailboxes with the same name; and a create
\* or a rename that would give the user a second mailbox of an existing
\* name returns an error and leaves every table of the store as it was.
C27_MailboxNamesUniquePerUser ==
  [][/\ NamesUnique(db) /\ NamesUnique(db')
     /\ (lastOp'.op = "ImapCreateMailbox"
           /\ NameTaken(db, lastOp'.arg[1], lastOp'.arg[2], 0))
        => (lastOp'.err # Ok /\ db' = db)
     /\ (lastOp'.op = "ImapRenameMailbox"
           /\ GetMailbox(db, lastOp'.arg[1], lastOp'.arg[2]).err = Ok
           /\ NameTaken(db, lastOp'.arg[1], lastOp'.arg[3],
                        GetMailbox(db, lastOp'.arg[1], lastOp'.arg[2]).mailbox.id))
        => (lastOp'.err # Ok /\ db' = db)]_vars

\* A rename of the mailbox Work, which the user created, onto the name of
\* another mailbox of the user was refused.
C27_Witness ==
  /\ lastOp.op = "ImapRenameMailbox"
  /\ lastOp.err = "unique"
  /\ lastOp.arg[2] = "Work"
  /\ NamesUnique(db)
  /\ Cardinality(db.mailboxes) >= 4

\* C28: when the deletion of one flagged message fails during Expunge,
\* Expunge reports the error, the flagged messages with a lower UID stay
\* deleted and no unflagged message is removed.  For every flagged message
\* x of a mailbox, an Expunge whose DeleteMessage fails on x returns an
\* error and leaves in the mailbox exactly the unflagged messages and the
\* flagged ones from x on, and every other row of the store as it was; and
\* every Expunge that returned an error left the store in such a state.
C28_ExpungePartialFailure ==
  [][/\ \A m \in BusyMailboxIds : \A x \in MessagesOf(db, {m}) :
          x.deleted =>
            LET r == ImapExpunge(db, m, x.id)
                before == MessagesOf(db, {m})
            IN /\ r.err # Ok
               /\ MessagesOf(r.db, {m}) = {y \in before : ~y.deleted \/ y.uid >= x.uid}
               /\ r.db.messages \ MessagesOf(r.db, {m}) = db.messages \ before
     /\ (lastOp'.op = "Expunge" /\ lastOp'.err # Ok)
        => \E x \in MessagesOf(db, {lastOp'.mailbox}) :
             x.deleted /\ db' = ImapExpunge(db, lastOp'.mailbox, x.id).db]_vars

\* An Expunge returned an error after it had removed a message: the
\* removed message is gone and a flagged one is still in the mailbox.
C28_Witness ==
  /\ lastOp.op = "Expunge" /\ lastOp.err # Ok /\ lastOp.removed > 0
  /\ \E x \in MessagesOf(db, {lastOp.mailbox}) : x.deleted

\* C29: a flag update is best-effort per message.  For every mailbox, set
\* and flags, and every message x of the set, a flag update whose store
\* update fails on x returns an error, leaves x as it was, and leaves every
\* other message of the set, those before x and those after it, with the
\* named flags set.
C29_FlagUpdateBestEffort ==
  \A m \in BusyMailboxIds, seqSet \in SUBSET SeqNums, flags \in SUBSET ImapFlags :
    LET L == ListMessages(db, m)
        selected == {L[i] : i \in seqSet \cap (1 .. Len(L))}
    IN \A x \in selected :
         LET r == ImapUpdateMessagesFlags(db, m, seqSet, flags, x.id)
         IN /\ r.err # Ok
            /\ x \in r.db.messages
            /\ \A y \in selected \ {x} :
                 [y EXCEPT !.seen = @ \/ SeenFlag \in flags,
                           !.deleted = @ \/ DeletedFlag \in flags,
                           !.draft = @ \/ DraftFlag \in flags] \in r.db.messages

\* C30: the identifier the mailbox adapter reports as a message's UID is
\* the UID the store holds for the message in its mailbox.  In a listing,
\* the UID field and the UID item of every returned message equal the UID
\* of the message at that position of the ascending-UID listing; a search
\* in UID mode returns the UIDs of the messages the same search returns by
\* position; and the results of every search are strictly ascending.
C30_ReportedUidIsMailboxUid ==
  LET L == ListMessages(db, lastOp.mailbox)
  IN /\ lastOp.op = "ListMessages" =>
          \A it \in Elems(lastOp.ret) :
            it.Uid = L[it.SeqNum].uid /\ it.UidItem = L[it.SeqNum].uid
     /\ lastOp.op = "SearchMessages" =>
          LET byPosition == ImapSearchMessages(db, lastOp.mailbox, FALSE, lastOp.arg[2])
          IN /\ lastOp.arg[1] =>
                  lastOp.ret = [k \in 1 .. Len(byPosition) |-> L[byPosition[k]].uid]
             /\ \A i \in 1 .. Len(lastOp.ret), j \in 1 .. Len(lastOp.ret) :
                  i < j => lastOp.ret[i] < lastOp.ret[j]

\* C31: renaming an existing mailbox through the mailbox adapter changes
\* only its name.  A rename to another name that returns nil leaves the
\* row with its id, owner and path under the new name, every other mailbox
\* row, every message (mailbox id, UID, flags and all) and every other
\* table as they were, and the old name no longer resolves for the user;
\* a rename of a name the user has no mailbox of returns NotFound and
\* changes nothing.
C31_RenameChangesOnlyName ==
  [][lastOp'.op = "ImapRenameMailbox" =>
       LET userId == lastOp'.arg[1]
           existingName == lastOp'.arg[2]
           newName == lastOp'.arg[3]
           g == GetMailbox(db, userId, existingName)
       IN /\ g.err # Ok => (lastOp'.err = "ErrMailboxNotFound" /\ db' = db)
          /\ (g.err = Ok /\ lastOp'.err = Ok /\ newName # existingName) =>
               /\ db'.mailboxes = (db.mailboxes \ {g.mailbox})
                                    \cup {[g.mailbox EXCEPT !.name = newName]}
               /\ db'.messages = db.messages
               /\ db'.users = db.users
               /\ db'.attachments = db.attachments
               /\ GetMailbox(db', userId, existingName).err = "ErrMailboxNotFound"
               /\ GetMailbox(db', userId, newName).mailbox.id = g.mailbox.id]_vars

\* A mailbox that holds a message was renamed: it is found under the new
\* name with its message.
C31_Witness ==
  /\ lastOp.op = "ImapRenameMailbox" /\ lastOp.err = Ok
  /\ lastOp.arg[2] # lastOp.arg[3]
  /\ MessagesOf(db, {GetMailbox(db, lastOp.arg[1], lastOp.arg[3]).mailbox.id}) # {}

\* C32: flag additions are not lost under concurrency.  When the write of
\* a flag update that listed the mailbox earlier lands on a message, the
\* message afterwards has every flag another session set on it in the
\* meantime together with the flags this update adds: each flag is true
\* after the write exactly when it was true before it or the write sets it.
C32_ConcurrentFlagAdditionsKept ==
  [][\A c \in FlagUpdates :
       (flagUpdate[c].pc = "loop" /\ flagUpdate'[c] # flagUpdate[c]) =>
         LET w == Head(flagUpdate[c].writes)
         IN \A x \in db.messages :
              x.id = w.id =>
                \E y \in db'.messages :
                  /\ y.id = x.id
                  /\ y.seen = (x.seen \/ w.seen)
                  /\ y.deleted = (x.deleted \/ w.deleted)
                  /\ y.draft = (x.draft \/ w.draft)]_vars

\* The rows of other users: the users other than userId, their mailboxes
\* and the messages in those mailboxes.
Foreign(d, userId) ==
  [users |-> {u \in d.users : u.id # userId},
   mailboxes |-> {b \in d.mailboxes : b.user_id # userId},
   messages |-> {x \in d.messages :
                   \E b \in d.mailboxes : b.id = x.mailbox_id /\ b.user_id # userId}]

\* The mailbox id is not the id of another user's mailbox.
NotForeign(d, userId, mailboxId) ==
  \A b \in d.mailboxes : b.id = mailboxId => b.user_id = userId

\* C33: sessions are isolated by user.  In every reachable state and for
\* every input: the mailboxes a mailbox session lists or gets are its
\* user's; create, rename and delete leave the rows of other users as they
\* were; the mailbox the session holds is not another user's, listing and
\* search on it return only messages of it, and flag update and expunge on
\* it, failing or not, leave the rows of other users as they were; and a
\* submission session resolves a mailbox of its user and its commit leaves
\* the rows of other users as they were.
C33_SessionsIsolatedByUser ==
  /\ \A s \in ImapSessions :
       LET A == imap[s].user
           m == imap[s].mailbox
       IN A # 0 =>
            /\ \A b \in ListMailboxes(db, A) : b.user_id = A
            /\ \A name \in MailboxNames :
                 /\ GetMailbox(db, A, name).err = Ok
                    => GetMailbox(db, A, name).mailbox.user_id = A
                 /\ Foreign(ImapCreateMailbox(db, A, name).db, A) = Foreign(db, A)
                 /\ Foreign(ImapDeleteMailbox(db, A, name).db, A) = Foreign(db, A)
                 /\ \A newName \in MailboxNames :
                      Foreign(ImapRenameMailbox(db, A, name, newName).db, A)
                        = Foreign(db, A)
            /\ m # 0 =>
                 /\ NotForeign(db, A, m)
                 /\ \A it \in Elems(ImapListMessages(db, m, FALSE, SeqNums)) :
                      \E x \in MessagesOf(db, {m}) : x.id = it.Uid
                 /\ \A id \in Elems(ImapSearchMessages(db, m, TRUE, NoCriteria)) :
                      \E x \in MessagesOf(db, {m}) : x.id = id
                 /\ \A failId \in FaultIds(m) :
                      /\ Foreign(ImapExpunge(db, m, failId).db, A) = Foreign(db, A)
                      /\ \A seqSet \in SUBSET SeqNums, flags \in SUBSET ImapFlags :
                           Foreign(ImapUpdateMessagesFlags(db, m, seqSet, flags,
                                                           failId).db, A)
                             = Foreign(db, A)
  /\ \A s \in SmtpSessions :
       LET A == smtp[s].user
       IN smtp[s].pc # "none" =>
            /\ GetMailbox(db, A, "INBOX").err = Ok
               => GetMailbox(db, A, "INBOX").mailbox.user_id = A
            /\ smtp[s].pc = "data" => NotForeign(db, A, smtp[s].mailbox)
            /\ \A body \in DataPayloads, now \in Clock :
                 /\ Foreign(SmtpData(db, smtp[s], body, now).db, A) = Foreign(db, A)
                 /\ smtp[s].pc = "data" =>
                      Foreign(CreateMessage(db, DataMessage(smtp[s], smtp[s].mailbox,
                                                            body, now)).db, A)
                        = Foreign(db, A)

\* A mailbox session has just expunged a message from the mailbox it
\* selected while another user, logged in on a submission session, holds a
\* message in a mailbox of their own.
C33_Witness ==
  /\ lastOp.op = "Expunge" /\ lastOp.removed > 0
  /\ \E s \in ImapSessions :
       /\ imap[s].mailbox = lastOp.mailbox
       /\ Foreign(db, imap[s].user).messages # {}
       /\ \E t \in SmtpSessions : smtp[t].pc # "none" /\ smtp[t].user # imap[s].user

(***************************************************************************)
(* C34.                                                                    *)
(***************************************************************************)
\* A listener has accepted a connection: a POP3 connection is in its
\* handler, or a submission or mailbox connection has sent a login.
ConnectionAccepted ==
  \/ \E c \in Pop3Sessions : pop3[c].pc # "none"
  \/ lastOp.op \in {"SmtpLogin", "AnonymousLogin", "ImapLogin"}

\* C34: the store has been opened successfully (connection established and
\* schema created by Open) before any listener accepts a connection, so no
\* adapter calls a store operation (here the AuthenticateUser of a login)
\* on a store that was not opened.
C34_StoreOpenedBeforeAccept ==
  ConnectionAccepted => (main.store.handle /\ main.store.opened)

====
